---------------------------- MODULE Spec2Model ----------------------------
(***************************************************************************)
(* A model of esadmin/elasticsearchadmin.py: the Connection wrapper around *)
(* one httplib.HTTPConnection (request / error contract, derived cluster   *)
(* queries, cached version tuple, with-block release) and TabularPrinter   *)
(* (row buffering, column widths, rendering with Python 2 print).          *)
(*                                                                         *)
(* Text is a sequence of one-character strings.  A JSON value is a tagged  *)
(* record: [t |-> "map", m |-> function from keys to JSON values],         *)
(* [t |-> "str", s |-> text], [t |-> "bool", b |-> BOOLEAN],               *)
(* [t |-> "int", n |-> Nat].                                               *)
(***************************************************************************)
EXTENDS Integers, Sequences, FiniteSets, TLC

VARIABLES
    es_version,      \* Connection.es_version: None or a tuple of integers
    scope,           \* where the Connection is used: "plain", "body" (inside a with-block), "exited"
    exit_closes,     \* close() calls made by __exit__
    escaped,         \* the error that left the with statement ("none" when none did)
    body_exc,        \* the error the with-block's body raised ("none" when it ended normally)
    call,            \* the last completed Connection call, as its caller saw it
    server_version,  \* the version.number text the node reports at GET /
    index_flush,     \* per index: the raw index.translog.disable_flush setting, or Absent
    cluster_alloc,   \* per scope: the raw disable_allocation setting, or Absent
    margin,          \* TabularPrinter.margin
    separator,       \* TabularPrinter.separator
    rows,            \* TabularPrinter._rows
    column_widths,   \* TabularPrinter._column_widths
    max_columns,     \* TabularPrinter._max_columns
    row_count,       \* TabularPrinter._row_count
    stream,          \* the text the last output() call wrote to its stream
    prev_widths      \* _column_widths as they were before the last row() call

vars == <<es_version, scope, exit_closes, escaped, body_exc, call,
          server_version, index_flush, cluster_alloc,
          margin, separator, rows, column_widths, max_columns, row_count,
          stream, prev_widths>>

connVars == <<es_version, scope, exit_closes, escaped, body_exc, call>>
serverVars == <<server_version, index_flush, cluster_alloc>>
tableVars == <<margin, separator, rows, column_widths, max_columns, row_count,
               stream, prev_widths>>

---------------------------------------------------------------------------
(* Bounds of the model. *)

\* longest version text enumerated exhaustively
MaxVerLen == 4
\* most indices in the /_settings response
MaxIndices == 2
\* most row() calls on one TabularPrinter
MaxRows == 2
\* most columns passed to one row() call
MaxCols == 2

---------------------------------------------------------------------------
(* Text helpers. *)

Digits == {"0", "1", "2", "3", "4", "5", "6", "7", "8", "9"}

DigitVal(c) ==
    CASE c = "0" -> 0 [] c = "1" -> 1 [] c = "2" -> 2 [] c = "3" -> 3
      [] c = "4" -> 4 [] c = "5" -> 5 [] c = "6" -> 6 [] c = "7" -> 7
      [] c = "8" -> 8 [] c = "9" -> 9

DigitChar(d) ==
    CASE d = 0 -> "0" [] d = 1 -> "1" [] d = 2 -> "2" [] d = 3 -> "3"
      [] d = 4 -> "4" [] d = 5 -> "5" [] d = 6 -> "6" [] d = 7 -> "7"
      [] d = 8 -> "8" [] d = 9 -> "9"

\* str.lower(), on the letters the model's texts use
LowerChar(c) ==
    CASE c = "T" -> "t" [] c = "R" -> "r" [] c = "U" -> "u" [] c = "E" -> "e"
      [] c = "F" -> "f" [] c = "A" -> "a" [] c = "L" -> "l" [] c = "S" -> "s"
      [] OTHER -> c

Lower(s) == [i \in 1..Len(s) |-> LowerChar(s[i])]

\* str(n) of a non-negative integer
RECURSIVE StrNat(_)
StrNat(n) == IF n < 10 THEN <<DigitChar(n)>>
             ELSE StrNat(n \div 10) \o <<DigitChar(n % 10)>>

\* int(s) of a non-empty text of digits
RECURSIVE IntOfDigits(_)
IntOfDigits(s) == IF s = <<>> THEN 0
                  ELSE 10 * IntOfDigits(SubSeq(s, 1, Len(s) - 1)) + DigitVal(s[Len(s)])

\* all texts over alphabet of length at most n
RECURSIVE TextsUpTo(_, _)
TextsUpTo(alphabet, n) ==
    IF n = 0 THEN {<<>>}
    ELSE LET shorter == TextsUpTo(alphabet, n - 1)
         IN  shorter \cup {Append(s, c) : s \in shorter, c \in alphabet}

---------------------------------------------------------------------------
(* JSON values and Python values. *)

JMap(m) == [t |-> "map", m |-> m]
JStr(s) == [t |-> "str", s |-> s]
JBool(b) == [t |-> "bool", b |-> b]
JInt(n) == [t |-> "int", n |-> n]

EmptyMap == JMap([k \in {} |-> JInt(0)])

\* Python's None, and "no such key" in the server's settings
None == [t |-> "none"]
Absent == [t |-> "absent"]

IsMap(v) == v.t = "map"
HasKey(v, k) == IsMap(v) /\ k \in DOMAIN v.m

\* str(b) of a JSON-decoded value
Str(v) ==
    CASE v.t = "str" -> v.s
      [] v.t = "bool" -> IF v.b THEN <<"T", "r", "u", "e">> ELSE <<"F", "a", "l", "s", "e">>
      [] v.t = "int" -> StrNat(v.n)

\* Python's ==: True == 1 and False == 0
PyEq(a, b) ==
    LET norm(v) == IF v.t = "bool" THEN JInt(IF v.b THEN 1 ELSE 0) ELSE v
    IN  norm(a) = norm(b)

booleanise(b) ==
    LET s == Str(b)
    IN  IF Lower(s) = <<"t", "r", "u", "e">> THEN JBool(TRUE)
        ELSE IF Lower(s) = <<"f", "a", "l", "s", "e">> THEN JBool(FALSE)
        ELSE b

---------------------------------------------------------------------------
(* The node at the other end of the transport. *)

Methods == {"GET", "PUT", "POST", "DELETE"}
StatusCodes == {200, 201, 404}

TrueText == <<"t", "r", "u", "e">>
UnknownText == <<"u", "n", "k", "n", "o", "w", "n">>

\* raw setting values a node may hold: stringified and real Booleans, other text, numbers
RawValues == {JStr(TrueText), JStr(<<"F", "a", "l", "s", "e">>), JBool(TRUE), JBool(FALSE),
              JStr(<<"m", "a", "y", "b", "e">>), JInt(1), JInt(0)}

AllocKey == "cluster.routing.allocation.disable_allocation"
FlushKey == "index.translog.disable_flush"
\* the scopes looked at the other way round
ScopesTransientFirst == <<"transient", "persistent">>

\* for i in ['persistent', 'transient']
Scopes == <<"persistent", "transient">>

\* version texts of real releases and pre-releases
KnownVersions == {<<"1", ".", "0", ".", "0", "-", "r", "c", "1">>,
                  <<"0", ".", "9", "0", ".", "1", "3">>,
                  <<"1", ".", "0", ".", "0">>,
                  <<"1", ".", "0", ".", "0", ".", "B", "e", "t", "a", "1">>,
                  <<"2", ".", "0", ".", "0", "-", "S", "N", "A", "P", "S", "H", "O", "T">>}

VersionAlphabet == {"0", "1", ".", "-", "r"}
\* a version number begins with a digit
VersionTexts == KnownVersions \cup
                {v \in TextsUpTo(VersionAlphabet, MaxVerLen) : v # <<>> /\ v[1] \in Digits}

\* the JSON document the node serves at each endpoint
RootDoc == JMap([version |-> JMap([number |-> JStr(server_version)])])

StateDoc ==
    JMap([master_node |-> [t |-> "name", id |-> "n1"],
          nodes |-> JMap([n1 |-> JMap([name |-> [t |-> "name", id |-> "alpha"]]),
                          n2 |-> JMap([name |-> [t |-> "name", id |-> "beta"]])]),
          metadata |-> JMap([indices |-> JMap([i \in DOMAIN index_flush |-> EmptyMap])])])

LocalNodeDoc == JMap([nodes |-> JMap([n2 |-> JMap([name |-> [t |-> "name", id |-> "beta"]])])])

SettingsDoc ==
    JMap([i \in DOMAIN index_flush |->
            JMap([settings |-> IF index_flush[i] = Absent THEN EmptyMap
                               ELSE JMap([k \in {FlushKey} |-> index_flush[i]])])])

ClusterSettingsDoc ==
    JMap([s \in {"persistent", "transient"} |->
            IF cluster_alloc[s] = Absent THEN EmptyMap
            ELSE JMap([k \in {AllocKey} |-> cluster_alloc[s]])])

DocAt(path) ==
    CASE path = "/" -> RootDoc
      [] path = "/_cluster/state" -> StateDoc
      [] path = "/_nodes/_local" -> LocalNodeDoc
      [] path = "/_cluster/nodes/_local" -> LocalNodeDoc
      [] path = "/_settings" -> SettingsDoc
      [] path = "/_cluster/settings" -> ClusterSettingsDoc
      [] OTHER -> JMap([acknowledged |-> JBool(TRUE)])

\* a response body: no bytes, bytes that are not JSON, or the text of a JSON document
Bodies(path) == {[kind |-> "empty"], [kind |-> "garbage"],
                 [kind |-> "json", doc |-> EmptyMap],
                 [kind |-> "json", doc |-> DocAt(path)]}

\* what the transport does with one request: conn.request()/getresponse() raise,
\* or a response arrives
TransportError == [transport |-> "error"]
Outcomes(path) == {TransportError} \cup
                  {[transport |-> "ok", status |-> st, body |-> b] :
                       st \in StatusCodes, b \in Bodies(path)}

\* len(resp_body) == 0
BodyIsEmpty(body) == body.kind = "empty"

\* json.loads(resp_body): ValueError on anything but JSON text, the empty text included
JsonLoads(body) == IF body.kind = "json" THEN [ok |-> TRUE, value |-> body.doc]
                   ELSE [ok |-> FALSE]

---------------------------------------------------------------------------
(* Connection. *)

Return(v) == [raised |-> "none", value |-> v]
Raise(e) == [raised |-> e, value |-> None]

Req(method, path, data) == [method |-> method, path |-> path, data |-> data]

\* request with every 2xx status taken as success
request_any_2xx(method, path, data, out) ==
    IF out.transport = "error" THEN Raise("TransportError")
    ELSE IF out.status \notin 200..299 THEN Raise("HttpError")
    ELSE LET dec == JsonLoads(out.body)
         IN  IF dec.ok THEN Return(dec.value)
             ELSE IF BodyIsEmpty(out.body) THEN Return(EmptyMap)
             ELSE Raise("ValueError")

request(method, path, data, out) ==
    IF out.transport = "error" THEN Raise("TransportError")
    ELSE IF out.status # 200 THEN Raise("HttpError")
    ELSE LET dec == JsonLoads(out.body)
         IN  IF dec.ok THEN Return(dec.value)
             ELSE IF BodyIsEmpty(out.body) THEN Return(EmptyMap)
             ELSE Raise("ValueError")

get(path, out) == request("GET", path, None, out)
put(path, data, out) == request("PUT", path, data, out)
post(path, data, out) == request("POST", path, data, out)
delete(path, data, out) == request("DELETE", path, data, out)

\* d[k] on a decoded value: KeyError when the key is missing
Item(d, k) == IF HasKey(d, k) THEN Return(d.m[k]) ELSE Raise("KeyError")

\* what a call hands back to the action that made it
Done(r, reqs, outs, es) ==
    [raised |-> r.raised, value |-> r.value, reqs |-> reqs, outs |-> outs, es |-> es]

GetState == Req("GET", "/_cluster/state", None)

\* master_node_id fetching the cluster state a second time
master_node_id_twice(es, o1) ==
    LET state == get("/_cluster/state", o1)
    IN  IF state.raised # "none" THEN Done(state, <<GetState>>, <<o1>>, es)
        ELSE Done(Item(state.value, "master_node"), <<GetState, GetState>>, <<o1, o1>>, es)

master_node_id(es, o1) ==
    LET state == get("/_cluster/state", o1)
    IN  IF state.raised # "none" THEN Done(state, <<GetState>>, <<o1>>, es)
        ELSE Done(Item(state.value, "master_node"), <<GetState>>, <<o1>>, es)

\* master going on to its second request whatever became of the first
master_retry(es, o1, o2) ==
    LET state == get("/_cluster/state", o2)
        reqs == <<GetState, GetState>>
        outs == <<o1, o2>>
        id == Item(state.value, "master_node")
        nodes == Item(state.value, "nodes")
        node == Item(nodes.value, id.value.id)
    IN  IF state.raised # "none" THEN Done(state, reqs, outs, es)
        ELSE IF id.raised # "none" THEN Done(id, reqs, outs, es)
        ELSE IF nodes.raised # "none" THEN Done(nodes, reqs, outs, es)
        ELSE IF node.raised # "none" THEN Done(node, reqs, outs, es)
        ELSE Done(Item(node.value, "name"), reqs, outs, es)

master(es, o1, o2) ==
    LET id == master_node_id(es, o1)
        state == get("/_cluster/state", o2)
        reqs == <<GetState, GetState>>
        outs == <<o1, o2>>
        nodes == Item(state.value, "nodes")
        node == Item(nodes.value, id.value.id)
    IN  IF id.raised # "none" THEN id
        ELSE IF state.raised # "none" THEN Done(state, reqs, outs, es)
        ELSE IF nodes.raised # "none" THEN Done(nodes, reqs, outs, es)
        ELSE IF node.raised # "none" THEN Done(node, reqs, outs, es)
        ELSE Done(Item(node.value, "name"), reqs, outs, es)

\* re.sub(r'[^0-9.-]', '', text)
Sanitize(text) == SelectSeq(text, LAMBDA c : c \in Digits \cup {".", "-"})

\* re.split(r'[.-]', text): the pieces between separators, empty pieces included
RECURSIVE ReSplit(_)
ReSplit(text) ==
    LET seps == {i \in 1..Len(text) : text[i] \in {".", "-"}}
    IN  IF seps = {} THEN <<text>>
        ELSE LET i == CHOOSE j \in seps : \A k \in seps : j <= k
             IN  <<SubSeq(text, 1, i - 1)>> \o ReSplit(SubSeq(text, i + 1, Len(text)))

\* tuple(int(s) for s in re.split(...)): int('') raises ValueError
ParseVersion(text) ==
    LET pieces == ReSplit(Sanitize(text))
    IN  IF \E i \in 1..Len(pieces) : pieces[i] = <<>> THEN [ok |-> FALSE]
        ELSE [ok |-> TRUE, tup |-> [i \in 1..Len(pieces) |-> IntOfDigits(pieces[i])]]

\* Python's a >= b on tuples of integers: lexicographic, a proper prefix is smaller
RECURSIVE TupleGE(_, _)
TupleGE(a, b) ==
    IF b = <<>> THEN TRUE
    ELSE IF a = <<>> THEN FALSE
    ELSE IF Head(a) # Head(b) THEN Head(a) > Head(b)
    ELSE TupleGE(Tail(a), Tail(b))

Tuple(v) == [t |-> "tuple", v |-> v]

NodeEndpoint(es) == IF TupleGE(es.v, <<1, 0, 0>>) THEN "/_nodes/_local"
                    ELSE "/_cluster/nodes/_local"

\* the version step of my_node_id (lines 84-91): the tuple to cache, or the error
VersionStep(es, o1) ==
    LET root == get("/", o1)
        version == Item(root.value, "version")
        number == Item(version.value, "number")
        parsed == ParseVersion(number.value.s)
    IN  IF es # None THEN Return(es)
        ELSE IF root.raised # "none" THEN root
        ELSE IF version.raised # "none" THEN version
        ELSE IF number.raised # "none" THEN number
        ELSE IF ~parsed.ok THEN Raise("ValueError")
        ELSE Return(Tuple(parsed.tup))

\* my_node_id asking the node for its version on every call
my_node_id_nocache(es, o1, o2) ==
    LET ver == VersionStep(None, o1)
        reqs1 == <<Req("GET", "/", None)>>
        outs1 == <<o1>>
        es1 == ver.value
        path == NodeEndpoint(es1)
        info == get(path, o2)
        reqs == Append(reqs1, Req("GET", path, None))
        outs == Append(outs1, o2)
        nodes == Item(info.value, "nodes")
    IN  IF ver.raised # "none" THEN Done(ver, reqs1, outs1, es)
        ELSE IF info.raised # "none" THEN Done(info, reqs, outs, es1)
        ELSE IF nodes.raised # "none" THEN Done(nodes, reqs, outs, es1)
        ELSE IF ~IsMap(nodes.value) \/ DOMAIN nodes.value.m = {}
             THEN Done(Raise("IndexError"), reqs, outs, es1)
        ELSE Done(Return([t |-> "name", id |-> CHOOSE k \in DOMAIN nodes.value.m : TRUE]),
                  reqs, outs, es1)

my_node_id(es, o1, o2) ==
    LET ver == VersionStep(es, o1)
        reqs1 == IF es = None THEN <<Req("GET", "/", None)>> ELSE <<>>
        outs1 == IF es = None THEN <<o1>> ELSE <<>>
        es1 == ver.value
        path == NodeEndpoint(es1)
        info == get(path, o2)
        reqs == Append(reqs1, Req("GET", path, None))
        outs == Append(outs1, o2)
        nodes == Item(info.value, "nodes")
    IN  IF ver.raised # "none" THEN Done(ver, reqs1, outs1, es)
        ELSE IF info.raised # "none" THEN Done(info, reqs, outs, es1)
        ELSE IF nodes.raised # "none" THEN Done(nodes, reqs, outs, es1)
        ELSE IF ~IsMap(nodes.value) \/ DOMAIN nodes.value.m = {}
             THEN Done(Raise("IndexError"), reqs, outs, es1)
        ELSE Done(Return([t |-> "name", id |-> CHOOSE k \in DOMAIN nodes.value.m : TRUE]),
                  reqs, outs, es1)

indices(es, o1) ==
    LET state == get("/_cluster/state", o1)
        metadata == Item(state.value, "metadata")
        idx == Item(metadata.value, "indices")
    IN  IF state.raised # "none" THEN Done(state, <<GetState>>, <<o1>>, es)
        ELSE IF metadata.raised # "none" THEN Done(metadata, <<GetState>>, <<o1>>, es)
        ELSE IF idx.raised # "none" THEN Done(idx, <<GetState>>, <<o1>>, es)
        ELSE Done(Return([t |-> "names", ids |-> DOMAIN idx.value.m]), <<GetState>>, <<o1>>, es)

GetSettings == Req("GET", "/_settings", None)

\* idx_settings.get('index.translog.disable_flush', "unknown")
FlushSetting(idx_settings) ==
    IF HasKey(idx_settings, FlushKey) THEN idx_settings.m[FlushKey] ELSE JStr(UnknownText)

get_index_translog_disable_flush(es, o1) ==
    LET settings == get("/_settings", o1)
        names == DOMAIN settings.value.m
    IN  IF settings.raised # "none" THEN Done(settings, <<GetSettings>>, <<o1>>, es)
        ELSE IF \E idx \in names : ~HasKey(settings.value.m[idx], "settings")
             THEN Done(Raise("KeyError"), <<GetSettings>>, <<o1>>, es)
        ELSE Done(Return(JMap([idx \in names |->
                                 booleanise(FlushSetting(settings.value.m[idx].m["settings"]))])),
                  <<GetSettings>>, <<o1>>, es)

GetClusterSettings == Req("GET", "/_cluster/settings", None)

\* one pass of the loop of allocator_disabled (lines 138-143) over scope i
AllocStep(state, settings, i) ==
    IF AllocKey \in DOMAIN settings.m[i].m
    THEN LET v == booleanise(settings.m[i].m[AllocKey])
         IN  IF PyEq(v, JBool(TRUE)) THEN "disabled"
             ELSE IF PyEq(v, JBool(FALSE)) THEN "enabled"
             ELSE state
    ELSE state

allocator_disabled(es, o1) ==
    LET settings == get("/_cluster/settings", o1)
        reqs == <<GetClusterSettings>>
        s1 == AllocStep("unknown", settings.value, Scopes[1])
    IN  IF settings.raised # "none" THEN Done(settings, reqs, <<o1>>, es)
        ELSE IF ~HasKey(settings.value, Scopes[1]) THEN Done(Raise("KeyError"), reqs, <<o1>>, es)
        ELSE IF ~HasKey(settings.value, Scopes[2]) THEN Done(Raise("KeyError"), reqs, <<o1>>, es)
        ELSE Done(Return([t |-> "word", w |-> AllocStep(s1, settings.value, Scopes[2])]),
                  reqs, <<o1>>, es)

\* set(disabled.values()): equal values (True and 1, False and 0) are one element
PySet(d) ==
    LET canon(v) == IF v.t = "int" /\ v.n \in {0, 1} THEN JBool(v.n = 1) ELSE v
    IN  {canon(d[i]) : i \in DOMAIN d}

flushing_disabled(es, o1) ==
    LET disabled == get_index_translog_disable_flush(es, o1)
        states == PySet(disabled.value.m)
        word == IF Cardinality(states) > 1 /\ JBool(TRUE) \in states THEN "some"
                ELSE IF Cardinality(states) = 1
                     THEN IF JBool(TRUE) \in states THEN "disabled" ELSE "enabled"
                ELSE "unknown"
    IN  IF disabled.raised # "none" THEN disabled
        ELSE Done(Return([t |-> "word", w |-> word]), disabled.reqs, disabled.outs, es)

\* __exit__ returning a true value
ExitSwallow(exc) == [closes |-> 1, suppress |-> TRUE]

\* __exit__(exc_type, exc_value, traceback): close(), and return None; the with
\* statement re-raises the body's error unless __exit__ returns a true value
Exit(exc) == [closes |-> 1, suppress |-> FALSE]

---------------------------------------------------------------------------
(* Connection: the calls a caller makes, each one action. *)

NoCall == [op |-> "none", reqs |-> <<>>, outs |-> <<>>, raised |-> "none",
           value |-> None, es_before |-> None]

\* the caller may call while it holds the Connection, in or out of a with-block
InUse == scope \in {"plain", "body"}

\* the call returned or raised: what the caller saw, and the version cache after it
Finish(op, r) ==
    /\ call' = [op |-> op, reqs |-> r.reqs, outs |-> r.outs, raised |-> r.raised,
                value |-> r.value, es_before |-> es_version]
    /\ es_version' = r.es
    /\ UNCHANGED <<scope, exit_closes, escaped, body_exc>>
    /\ UNCHANGED serverVars
    /\ UNCHANGED tableVars

RawPaths == {"/_cluster/settings", "/idx"}
EmptyData == JStr(<<>>)
SomeData == JStr(<<"{", "}">>)

Direct(r, req, out) == Done(r, <<req>>, <<out>>, es_version)

Request ==
    /\ InUse
    /\ \E method \in Methods, path \in RawPaths, data \in {None, SomeData} :
         \E out \in Outcomes(path) :
           Finish("request", Direct(request(method, path, data, out),
                                    Req(method, path, data), out))

Get ==
    /\ InUse
    /\ \E path \in RawPaths : \E out \in Outcomes(path) :
         Finish("get", Direct(get(path, out), Req("GET", path, None), out))

Put ==
    /\ InUse
    /\ \E path \in RawPaths : \E out \in Outcomes(path) :
         Finish("put", Direct(put(path, SomeData, out), Req("PUT", path, SomeData), out))

Post ==
    /\ InUse
    /\ \E path \in RawPaths, data \in {EmptyData, SomeData} : \E out \in Outcomes(path) :
         Finish("post", Direct(post(path, data, out), Req("POST", path, data), out))

Delete ==
    /\ InUse
    /\ \E path \in RawPaths, data \in {EmptyData, SomeData} : \E out \in Outcomes(path) :
         Finish("delete", Direct(delete(path, data, out), Req("DELETE", path, data), out))

MasterNodeId ==
    /\ InUse
    /\ \E o1 \in Outcomes("/_cluster/state") :
         Finish("master_node_id", master_node_id(es_version, o1))

\* the outcomes to draw for a request: those of the path when the call gets as far as
\* making the request, and a placeholder when it does not
Drawn(made, path) == IF made THEN Outcomes(path) ELSE {TransportError}

Master ==
    /\ InUse
    /\ \E o1 \in Outcomes("/_cluster/state") :
         \E o2 \in Drawn(master_node_id(es_version, o1).raised = "none", "/_cluster/state") :
           Finish("master", master(es_version, o1, o2))

MyNodeId ==
    /\ InUse
    /\ \E o1 \in Drawn(es_version = None, "/") :
         LET ver == VersionStep(es_version, o1)
         IN  \E o2 \in Drawn(ver.raised = "none",
                              IF ver.raised = "none" THEN NodeEndpoint(ver.value) ELSE "/") :
               Finish("my_node_id", my_node_id(es_version, o1, o2))

Indices ==
    /\ InUse
    /\ \E o1 \in Outcomes("/_cluster/state") :
         Finish("indices", indices(es_version, o1))

GetIndexTranslogDisableFlush ==
    /\ InUse
    /\ \E o1 \in Outcomes("/_settings") :
         Finish("get_index_translog_disable_flush",
                get_index_translog_disable_flush(es_version, o1))

AllocatorDisabled ==
    /\ InUse
    /\ \E o1 \in Outcomes("/_cluster/settings") :
         Finish("allocator_disabled", allocator_disabled(es_version, o1))

FlushingDisabled ==
    /\ InUse
    /\ \E o1 \in Outcomes("/_settings") :
         Finish("flushing_disabled", flushing_disabled(es_version, o1))

\* with Connection(host, port) as c: __enter__ returns self
Enter ==
    /\ scope = "plain"
    /\ scope' = "body"
    /\ UNCHANGED <<es_version, exit_closes, escaped, body_exc, call>>
    /\ UNCHANGED serverVars
    /\ UNCHANGED tableVars

\* the errors that may end the body: none, the last call's error when the body did
\* not catch it, or an error of the body's own
BodyEndings == {"none", "BodyError"} \cup {call.raised}

\* the block is left, normally or by an error: __exit__ runs
Leave ==
    /\ scope = "body"
    /\ \E exc \in BodyEndings :
         LET x == Exit(exc)
         IN  /\ body_exc' = exc
             /\ exit_closes' = exit_closes + x.closes
             /\ escaped' = IF x.suppress THEN "none" ELSE exc
    /\ scope' = "exited"
    /\ UNCHANGED <<es_version, call>>
    /\ UNCHANGED serverVars
    /\ UNCHANGED tableVars

\* the node is upgraded and reports another version from now on
LaterVersions == {<<"1", ".", "0", ".", "0", "-", "r", "c", "1">>,
                  <<"2", ".", "0", ".", "0", "-", "S", "N", "A", "P", "S", "H", "O", "T">>}

ServerUpgrade ==
    /\ server_version \notin LaterVersions
    /\ server_version' \in LaterVersions
    /\ UNCHANGED <<index_flush, cluster_alloc>>
    /\ UNCHANGED connVars
    /\ UNCHANGED tableVars

---------------------------------------------------------------------------
(* TabularPrinter. *)

DEFAULT_MARGIN == <<" ", " ", " ", " ">>
DEFAULT_SEPARATOR == <<" ", " ">>

\* the column values a caller passes: text and numbers
CellValues == {JStr(<<>>), JStr(<<"a", "b">>), JInt(7)}

RowsUpTo(n) == UNION {[1..k -> CellValues] : k \in 0..n}

\* seq[idx], 1-based: IndexError past the end, which nontruncating_zip turns into None
At(seq, idx) == IF idx <= Len(seq) THEN JInt(seq[idx]) ELSE None

\* the loop of nontruncating_zip from position idx on
RECURSIVE ZipFrom(_, _)
ZipFrom(seqs, idx) ==
    LET n_seqs == Len(seqs)
        empties == Cardinality({k \in 1..n_seqs : idx > Len(seqs[k])})
    IN  IF empties = n_seqs THEN <<>>
        ELSE <<[k \in 1..n_seqs |-> At(seqs[k], idx)]>> \o ZipFrom(seqs, idx + 1)

\* the built-in zip: as long as the shortest sequence
truncating_zip(seqs) ==
    LET full == ZipFrom(seqs, 1)
        shortest == CHOOSE n \in 0..Len(full) :
                       /\ \A k \in 1..Len(seqs) : n <= Len(seqs[k])
                       /\ \E k \in 1..Len(seqs) : n = Len(seqs[k])
    IN  SubSeq(full, 1, shortest)

nontruncating_zip(seqs) == ZipFrom(seqs, 1)

\* Python 2's max(x, y) on an integer and None: None orders below every integer
PyMax(x, y) == IF x = None THEN y
               ELSE IF y = None THEN x
               ELSE IF y.n > x.n THEN y ELSE x

\* the widths after row(*columns), columns already text (lines 204-208)
NewWidths(widths, columns) ==
    LET lens == [i \in 1..Len(columns) |-> Len(columns[i])]
        zipped == nontruncating_zip(<<widths, lens>>)
    IN  [i \in 1..Len(zipped) |-> PyMax(zipped[i][1], zipped[i][2]).n]

Max(a, b) == IF a >= b THEN a ELSE b

Row ==
    /\ row_count < MaxRows
    /\ \E values \in RowsUpTo(MaxCols) :
         LET columns == [i \in 1..Len(values) |-> Str(values[i])]
         IN  /\ rows' = Append(rows, columns)
             /\ row_count' = row_count + 1
             /\ column_widths' = NewWidths(column_widths, columns)
             /\ max_columns' = Max(max_columns, Len(columns))
    /\ prev_widths' = column_widths
    /\ UNCHANGED <<margin, separator, stream>>
    /\ UNCHANGED connVars
    /\ UNCHANGED serverVars

\* a writable stream: the text written so far and the print statement's softspace flag
NewStream == [text |-> <<>>, softspace |-> FALSE]

IsSpace(c) == c \in {" ", "\t", "\n"}

\* stream.write(s)
Write(st, s) == [text |-> st.text \o s, softspace |-> st.softspace]

\* print >>stream, item,   a pending soft space is written first; the flag is set
\* again unless the item ends in whitespace other than a blank
PrintItem(st, item) ==
    [text |-> (IF st.softspace THEN st.text \o <<" ">> ELSE st.text) \o item,
     softspace |-> \/ item = <<>>
                   \/ ~IsSpace(item[Len(item)])
                   \/ item[Len(item)] = " "]

\* print >>stream
PrintNewline(st) == [text |-> st.text \o <<"\n">>, softspace |-> FALSE]

\* "%-<width>s" % column
LJust(column, width) ==
    column \o [i \in 1..(IF width > Len(column) THEN width - Len(column) ELSE 0) |-> " "]

\* the inner loop of output over the columns of one row, from column_idx on
RECURSIVE WriteColumns(_, _, _)
WriteColumns(st, row, column_idx) ==
    IF column_idx > Len(row) THEN st
    ELSE WriteColumns(PrintItem(st, LJust(row[column_idx], column_widths[column_idx])
                                    \o separator),
                      row, column_idx + 1)

\* the outer loop of output over the buffered rows, from row i on
RECURSIVE WriteRows(_, _)
WriteRows(st, i) ==
    IF i > Len(rows) THEN st
    ELSE WriteRows(PrintNewline(WriteColumns(Write(st, margin), rows[i], 1)), i + 1)

Output ==
    /\ stream' = WriteRows(NewStream, 1).text
    /\ UNCHANGED <<margin, separator, rows, column_widths, max_columns, row_count,
                   prev_widths>>
    /\ UNCHANGED connVars
    /\ UNCHANGED serverVars

---------------------------------------------------------------------------
(* Specifications. *)

NoStream == <<"<", "n", "o", "t", " ", "w", "r", "i", "t", "t", "e", "n", ">">>

\* a Connection just constructed
ConnInit ==
    /\ es_version = None
    /\ scope = "plain"
    /\ exit_closes = 0
    /\ escaped = "none"
    /\ body_exc = "none"
    /\ call = NoCall

\* a TabularPrinter just constructed, with the default or the caller's margin and separator
TableInit ==
    /\ margin \in {DEFAULT_MARGIN, <<>>}
    /\ separator \in {DEFAULT_SEPARATOR, <<"\t">>}
    /\ rows = <<>>
    /\ column_widths = <<>>
    /\ max_columns = 0
    /\ row_count = 0
    /\ stream = NoStream
    /\ prev_widths = <<>>

TableIdle ==
    /\ margin = DEFAULT_MARGIN
    /\ separator = DEFAULT_SEPARATOR
    /\ rows = <<>>
    /\ column_widths = <<>>
    /\ max_columns = 0
    /\ row_count = 0
    /\ stream = NoStream
    /\ prev_widths = <<>>

IndexNameSeq == <<"a", "b", "c", "d">>

\* a node with one released version, two indices and a persistent allocation setting
ServerInit ==
    /\ server_version = <<"0", ".", "9", "0", ".", "1", "3">>
    /\ index_flush = [i \in {"a", "b"} |-> IF i = "a" THEN JStr(TrueText) ELSE Absent]
    /\ cluster_alloc = [s \in {"persistent", "transient"} |->
                          IF s = "persistent" THEN JStr(TrueText) ELSE Absent]

Init == ConnInit /\ ServerInit /\ TableIdle

Next ==
    \/ Request \/ Get \/ Put \/ Post \/ Delete
    \/ MasterNodeId \/ Master \/ MyNodeId \/ Indices
    \/ GetIndexTranslogDisableFlush \/ AllocatorDisabled \/ FlushingDisabled
    \/ Enter \/ Leave \/ ServerUpgrade

Spec == Init /\ [][Next]_vars

\* my_node_id against a node reporting any version text
InitVersion ==
    /\ ConnInit /\ TableIdle
    /\ server_version \in VersionTexts
    /\ index_flush = [i \in {} |-> Absent]
    /\ cluster_alloc = [s \in {"persistent", "transient"} |-> Absent]

SpecVersion == InitVersion /\ [][MyNodeId]_vars

\* the flush queries against any per-index settings
InitFlush ==
    /\ ConnInit /\ TableIdle
    /\ server_version = <<"1", ".", "0", ".", "0">>
    /\ \E n \in 0..MaxIndices :
         index_flush \in [{IndexNameSeq[i] : i \in 1..n} -> RawValues \cup {Absent}]
    /\ cluster_alloc = [s \in {"persistent", "transient"} |-> Absent]

NextFlush == GetIndexTranslogDisableFlush \/ FlushingDisabled

SpecFlush == InitFlush /\ [][NextFlush]_vars

\* allocator_disabled against any cluster settings
InitAlloc ==
    /\ ConnInit /\ TableIdle
    /\ server_version = <<"1", ".", "0", ".", "0">>
    /\ index_flush = [i \in {} |-> Absent]
    /\ cluster_alloc \in [{"persistent", "transient"} -> RawValues \cup {Absent}]

SpecAlloc == InitAlloc /\ [][AllocatorDisabled]_vars

\* one TabularPrinter
InitTable == ConnInit /\ ServerInit /\ TableInit

NextTable == Row \/ Output

SpecTable == InitTable /\ [][NextTable]_vars

---------------------------------------------------------------------------
(* Properties. *)

RequestFamily == {"request", "get", "put", "post", "delete"}

\* the response (or transport failure) the i-th request of the last call met
OutOf(i) == call.outs[i]

\* a request that came back with status 200 and a body request() can decode
Succeeded(out) ==
    /\ out.transport = "ok"
    /\ out.status = 200
    /\ out.body.kind \in {"empty", "json"}

\* C1: request (and get, put, post, delete over it) raises HttpError and hands back
\* no payload for every status but 200, other 2xx included, whatever the body;
\* with status 200 it returns an empty mapping for an empty body, raises the decode
\* error for a non-empty body that is not JSON, and returns the decoded document
\* for JSON.
C1_RequestContract ==
    (call.op \in RequestFamily /\ OutOf(1).transport = "ok") =>
        LET out == OutOf(1)
        IN  /\ out.status # 200 => (call.raised = "HttpError" /\ call.value = None)
            /\ (out.status = 200 /\ out.body.kind = "empty") =>
                   (call.raised = "none" /\ call.value = EmptyMap)
            /\ (out.status = 200 /\ out.body.kind = "garbage") =>
                   (call.raised = "ValueError" /\ call.value = None)
            /\ (out.status = 200 /\ out.body.kind = "json") =>
                   (call.raised = "none" /\ call.value = out.body.doc)

C1_Witness ==
    /\ call.op = "post"
    /\ OutOf(1).transport = "ok"
    /\ OutOf(1).status = 201
    /\ OutOf(1).body.kind = "json"
    /\ call.raised = "HttpError"

\* the word the flush claim gives for a set of normalized values
ClaimedFlushWord(vals) ==
    LET T == JBool(TRUE)
        F == JBool(FALSE)
        U == JStr(UnknownText)
    IN  IF T \in vals /\ vals # {T} THEN "some"
        ELSE IF vals = {T} THEN "disabled"
        ELSE IF vals = {F} THEN "enabled"
        ELSE IF vals \subseteq {U} THEN "unknown"
        ELSE "unspecified"

\* C2: for every mapping of index names to values in {true, false, "unknown"} that
\* get_index_translog_disable_flush returns, flushing_disabled returns "some" when true
\* and a non-true value appear, "disabled" when true is the only value, "enabled" when
\* false is the only value, and "unknown" when every index is "unknown" or there is no
\* index.
C2_FlushWordAsClaimed ==
    (call.op = "flushing_disabled" /\ call.raised = "none") =>
        LET disabled == get_index_translog_disable_flush(None, OutOf(1)).value.m
            vals == {disabled[i] : i \in DOMAIN disabled}
        IN  (/\ vals \subseteq {JBool(TRUE), JBool(FALSE), JStr(UnknownText)}
             /\ ClaimedFlushWord(vals) # "unspecified")
            => call.value.w = ClaimedFlushWord(vals)

\* the raw settings the claims call true and false once normalized
TrueRaw == {JStr(TrueText), JBool(TRUE)}
FalseRaw == {JStr(<<"F", "a", "l", "s", "e">>), JBool(FALSE)}

\* C3: allocator_disabled returns "unknown" when the key is in neither scope; otherwise
\* the value it resolves is that of the transient scope when the key is there and that
\* of the persistent scope when it is only there, and it returns "disabled" when that
\* value normalizes to true and "enabled" when it normalizes to false.
C3_AllocatorWord ==
    (/\ call.op = "allocator_disabled"
     /\ call.raised = "none"
     /\ OutOf(1).body = [kind |-> "json", doc |-> ClusterSettingsDoc]) =>
        LET p == cluster_alloc["persistent"]
            tr == cluster_alloc["transient"]
            resolved == IF tr # Absent THEN tr ELSE p
        IN  /\ (p = Absent /\ tr = Absent) => call.value.w = "unknown"
            /\ resolved \in TrueRaw => call.value.w = "disabled"
            /\ resolved \in FalseRaw => call.value.w = "enabled"

C3_Witness ==
    /\ call.op = "allocator_disabled"
    /\ call.raised = "none"
    /\ OutOf(1).body = [kind |-> "json", doc |-> ClusterSettingsDoc]
    /\ cluster_alloc["persistent"] \in FalseRaw
    /\ cluster_alloc["transient"] \in TrueRaw
    /\ call.value.w = "disabled"

\* the last call is my_node_id, made with no version cached, and the node answered
\* GET / with status 200 and its root document
GotVersionText ==
    /\ call.op = "my_node_id"
    /\ call.es_before = None
    /\ Len(call.outs) >= 1
    /\ OutOf(1).transport = "ok"
    /\ OutOf(1).status = 200
    /\ OutOf(1).body = [kind |-> "json", doc |-> RootDoc]

\* C4: for every version text the node reports, my_node_id turns it into a sequence of
\* integers ("1.0.0-rc1" into (1,0,0,1)) and sends the node-identity request to
\* /_nodes/_local exactly when that sequence is >= (1,0,0), else to
\* /_cluster/nodes/_local; the result is the first key of the node mapping returned.
C4_VersionDispatch ==
    GotVersionText =>
        /\ es_version # None
        /\ Len(call.reqs) = 2
        /\ call.reqs[2].path = (IF TupleGE(es_version.v, <<1, 0, 0>>) THEN "/_nodes/_local"
                                ELSE "/_cluster/nodes/_local")
        /\ server_version = <<"1", ".", "0", ".", "0", "-", "r", "c", "1">>
              => es_version.v = <<1, 0, 0, 1>>
        /\ (Succeeded(OutOf(2)) /\ OutOf(2).body = [kind |-> "json", doc |-> LocalNodeDoc])
              => (call.raised = "none" /\ call.value.id = "n2")

\* C5: after any row calls with any mix of column counts, the width sequence is at
\* least as long as the longest row added, the width at every index is at least the
\* length of every cell buffered at that index, every call was buffered and counted,
\* and no width is lower (or gone) after a row call than before it.
C5_WidthsCoverRows ==
    /\ row_count = Len(rows)
    /\ \A r \in 1..Len(rows) :
         /\ Len(column_widths) >= Len(rows[r])
         /\ \A i \in 1..Len(rows[r]) : column_widths[i] >= Len(rows[r][i])
    /\ max_columns <= Len(column_widths)
    /\ \A r \in 1..Len(rows) : Len(rows[r]) <= max_columns
    /\ Len(prev_widths) <= Len(column_widths)
    /\ \A i \in 1..Len(prev_widths) : column_widths[i] >= prev_widths[i]

C5_Witness ==
    /\ Len(rows) = 2
    /\ Len(rows[1]) = 2
    /\ Len(rows[2]) = 1
    /\ Len(rows[2][1]) > Len(rows[1][1])
    /\ Len(column_widths) = 2
    /\ column_widths[1] = Len(rows[2][1])
    /\ column_widths[2] = Len(rows[1][2])

\* the text the output claim gives for the columns of a row from index i on
RECURSIVE ClaimedColumns(_, _)
ClaimedColumns(row, i) ==
    IF i > Len(row) THEN <<>>
    ELSE row[i] \o [k \in 1..(column_widths[i] - Len(row[i])) |-> " "] \o separator
         \o ClaimedColumns(row, i + 1)

\* the text the output claim gives for the rows from index r on
RECURSIVE ClaimedRows(_)
ClaimedRows(r) ==
    IF r > Len(rows) THEN <<>>
    ELSE margin \o ClaimedColumns(rows[r], 1) \o <<"\n">> \o ClaimedRows(r + 1)

\* C6: output writes, for each buffered row in order, the margin, then each column
\* left-justified and padded to its final width and followed by exactly the separator,
\* then a newline, with nothing else between columns; and it leaves the rows, the
\* widths and row_count as they were.
C6_OutputText ==
    [][Output => /\ stream' = ClaimedRows(1)
                 /\ UNCHANGED <<rows, column_widths, row_count>>]_vars

\* C7, as claimed: when a call raises, the cached version tuple is what it was before
\* the call.
C7_NoStateChangeOnError ==
    call.raised # "none" => es_version = call.es_before

\* the version tuple my_node_id computes from the root document of the i-th response
TupleFrom(out) == Tuple(ParseVersion(out.body.doc.m["version"].m["number"].s).tup)

\* C7, amended: when a call raises, every request before the last one it issued had
\* succeeded (nothing is retried or swallowed), and the cached version tuple is what it
\* was before the call, except that a my_node_id call made with no version cached, whose
\* GET / succeeded and whose node-info request then failed, leaves the tuple computed
\* from that GET / in the cache.
C7_FailsOutright ==
    call.raised # "none" =>
        /\ Len(call.outs) = Len(call.reqs)
        /\ \A i \in 1..(Len(call.outs) - 1) : Succeeded(OutOf(i))
        /\ \/ es_version = call.es_before
           \/ /\ call.op = "my_node_id"
              /\ call.es_before = None
              /\ Len(call.reqs) = 2
              /\ call.reqs[1].path = "/"
              /\ es_version = TupleFrom(OutOf(1))

C7_Witness ==
    /\ call.op = "my_node_id"
    /\ call.raised = "HttpError"
    /\ call.es_before = None
    /\ es_version # None
    /\ Len(call.reqs) = 2

\* C8: when the with-block is left, normally or by an error, __exit__ has called close()
\* exactly once, and the error the body raised is the error that leaves the with
\* statement.
C8_ScopedRelease ==
    scope = "exited" => (exit_closes = 1 /\ escaped = body_exc)

C8_Witness ==
    /\ scope = "exited"
    /\ call.raised = "HttpError"
    /\ body_exc = "HttpError"
    /\ escaped = "HttpError"
    /\ exit_closes = 1

\* C9, as claimed: every Connection call issues at most one request.
C9_AtMostOneRoundTrip == Len(call.reqs) <= 1

\* C9, amended: every call issues at most one request, except master, which issues up
\* to two (both GET /_cluster/state), and my_node_id made with no version cached, which
\* issues up to two (GET / and then the node-info request); my_node_id with a version
\* cached issues one.
C9_RoundTrips ==
    /\ call.op \notin {"master", "my_node_id"} => Len(call.reqs) <= 1
    /\ call.op = "master" =>
         /\ Len(call.reqs) <= 2
         /\ \A i \in 1..Len(call.reqs) : call.reqs[i] = Req("GET", "/_cluster/state", None)
    /\ (call.op = "my_node_id" /\ call.es_before = None) =>
         /\ Len(call.reqs) <= 2
         /\ call.reqs[1] = Req("GET", "/", None)
    /\ (call.op = "my_node_id" /\ call.es_before # None) => Len(call.reqs) = 1

C9_Witness ==
    /\ call.op = "master"
    /\ call.raised = "none"
    /\ Len(call.reqs) = 2

\* C10: a my_node_id call issues GET / only when no version tuple is cached; a cached
\* tuple never changes, whatever the node reports later, and a call made with a tuple
\* cached sends its one request to the endpoint that tuple selects; no other call
\* changes the cache.
C10_VersionCachedOnce ==
    /\ (\E i \in 1..Len(call.reqs) : call.reqs[i].path = "/") => call.es_before = None
    /\ call.es_before # None => es_version = call.es_before
    /\ (call.op = "my_node_id" /\ call.es_before # None) =>
           call.reqs = <<Req("GET", NodeEndpoint(call.es_before), None)>>
    /\ call.op # "my_node_id" => es_version = call.es_before

C10_Witness ==
    /\ call.op = "my_node_id"
    /\ call.es_before = Tuple(<<0, 90, 13>>)
    /\ server_version = <<"1", ".", "0", ".", "0", "-", "r", "c", "1">>
    /\ call.reqs = <<Req("GET", "/_cluster/nodes/_local", None)>>
    /\ es_version = Tuple(<<0, 90, 13>>)

===========================================================================
